---- MODULE Spec2Model ----
(***************************************************************************)
(* QueryWeaver: token authentication (api/auth/user_management.py) and the *)
(* per-user memory subsystem (api/memory/graphiti_tool.py,                 *)
(* api/memory/memory_manager.py).                                          *)
(*                                                                         *)
(* Text that the code transforms (e-mail addresses, provider user ids,     *)
(* user ids, memory database names) is a sequence of character codes.      *)
(* Opaque credentials that are only compared (session tokens, API tokens)  *)
(* are TLA+ strings, "" being the empty string.  An Optional value is a    *)
(* sequence of length 0 (None) or 1.                                       *)
(*                                                                         *)
(* Node properties that no modelled operation reads (name, picture,        *)
(* first_name, last_name, created_at, last_login) are left out of the      *)
(* Organizations graph.                                                    *)
(***************************************************************************)
EXTENDS Integers, Sequences, FiniteSets, TLC

\* ------------------------------------------------------------------ bounds
\* the clock advances MaxTicks times, TickMs milliseconds at a time
MaxTicks == 2
TickMs == 86400000
\* the sizes of the memory graph, the largest limit asked of
\* retrieve_similar_queries, the most edges a fact search returns
MaxEntities == 2
MaxQueries == 2
MaxLimit == 2
MaxFacts == 1
\* the most items of a conversation list
MaxExchanges == 1
\* the most tables of a schema_data list
MaxTables == 2

\* ------------------------------------------------------- program constants
\* token.expires_at = timestamp() + 86400000
TokenTTL == 86400000
\* CALL db.idx.vector.queryNodes('Query', 'embeddings', 10, ...)
VectorK == 10
\* search_memories: retrieve_similar_queries(query=query, limit=5)
SimilarLimit == 5
\* search_memories(query, user_limit=5, database_limit=10)
UserLimit == 5
DatabaseLimit == 10

\* ------------------------------------------------------------------ inputs
EmailA == <<97, 64, 98, 46, 99>>        \* "a@b.c"
EmailB == <<98, 64, 98, 46, 99>>        \* "b@b.c"
EmailBad == <<97, 98>>                  \* "ab": no "@", no "."
Emails == {EmailA, EmailB}
Providers == {"google", "github"}
ProviderUserIds == {<<49>>}             \* "1"
\* the (provider_user_id, email, provider) triples of the logins: the valid
\* ones, and one that fails each check of the input validation
LoginInputs ==
    (ProviderUserIds \X Emails \X Providers)
    \cup {<<<<>>, EmailA, "google">>, <<<<49>>, <<>>, "google">>,
          <<<<49>>, EmailA, "">>, <<<<49>>, EmailBad, "google">>,
          <<<<49>>, <<97, 64, 98>>, "google">>, <<<<49>>, EmailA, "gitlab">>}
SessionTokens == {"t1"}
ApiTokens == {"k1", "k2"}
\* the API token each account generates
ApiTokenOwners == {<<"k1", EmailA>>, <<"k2", EmailB>>}
\* what a client may put in the api_token cookie or query parameter
Presented == SessionTokens \cup {""}
\* the Authorization header: absent, or <<scheme, rest>>
Headers == {<<>>, <<"Basic", "t1">>} \cup {<<"Bearer", t>> : t \in ApiTokens \cup {""}}

VARIABLES
    dbAsync,        \* whether api.extensions.db is the asyncio FalkorDB client
    now,            \* the database's timestamp(), in milliseconds
    userNodes,      \* (:User) nodes of the Organizations graph
    identityNodes,  \* (:Identity) nodes
    tokenNodes,     \* (:Token) nodes
    authenticates,  \* (:Identity)-[:AUTHENTICATES]->(:User) edges, by node id
    hasToken,       \* (:Identity)-[:HAS_TOKEN]->(:Token) edges, by node id
    apiTokenStore,  \* API tokens generated through the UI: token -> account e-mail
    req,            \* the request inside token_required's wrapper
    accessLog,      \* what the handlers reached so far were given
    entityNodes,    \* the entity nodes of one user's memory graph
    queryNodes,     \* its (:Query) nodes, each linked from an entity node
    current_database, \* MemoryManager.current_database
    sm,             \* the call of search_memories in progress
    last,           \* the last call of a memory operation that returned
    cr,             \* the call of MemoryTool.create in progress
    sc,             \* the last call of summarize_conversation
    fmt             \* the last schema formatted by both format functions

authVars == <<dbAsync, now, userNodes, identityNodes, tokenNodes, authenticates,
              hasToken, apiTokenStore, req, accessLog>>

memVars == <<entityNodes, queryNodes, current_database, sm, last, cr, sc, fmt>>

vars == <<authVars, memVars>>

orgVars == <<userNodes, identityNodes, tokenNodes, authenticates, hasToken>>

\* ----------------------------------------------------------------- helpers
None == <<>>
Some(x) == <<x>>

\* Python's "x in s" for a character
Contains(s, c) == \E i \in 1..Len(s) : s[i] = c

\* the identity of a node the database creates: its merge key and the number
\* of the copy (1 for the first node with that key)
FreshNid(nodes, key) ==
    <<key, 1 + Cardinality({m \in nodes : m.nid[1] = key})>>

\* ------------------------------------------------------------------ base64
\* the base64 alphabet: index 0..63 -> character code
B64Char(i) ==
    IF i < 26 THEN 65 + i
    ELSE IF i < 52 THEN 97 + (i - 26)
    ELSE IF i < 62 THEN 48 + (i - 52)
    ELSE IF i = 62 THEN 43 ELSE 47

RECURSIVE B64Encode(_)
\* base64.b64encode(bytes).decode(): 3 bytes -> 4 characters, "=" padding
B64Encode(s) ==
    IF Len(s) = 0 THEN <<>>
    ELSE IF Len(s) = 1 THEN
        LET n == s[1] * 16
        IN  <<B64Char(n \div 64), B64Char(n % 64), 61, 61>>
    ELSE IF Len(s) = 2 THEN
        LET n == (s[1] * 256 + s[2]) * 4
        IN  <<B64Char(n \div 4096), B64Char((n \div 64) % 64), B64Char(n % 64), 61>>
    ELSE
        LET n == s[1] * 65536 + s[2] * 256 + s[3]
        IN  <<B64Char(n \div 262144), B64Char((n \div 4096) % 64),
              B64Char((n \div 64) % 64), B64Char(n % 64)>>
            \o B64Encode(SubSeq(s, 4, Len(s)))

\* MemoryTool.__init__: user_memory_db = f"{user_id}-memory"
MemoryDbName(user_id) == user_id \o <<45, 109, 101, 109, 111, 114, 121>>

\* ------------------------------------------------------ Organizations graph
\* An awaited "await organizations_graph.query(...)": the query runs either
\* way; with the synchronous client the await of its QueryResult raises
\* TypeError after the query has run.
AwaitedQueryRaises == ~dbAsync
\* A query that is not awaited, "result = organizations_graph.query(...)":
\* with the asyncio client the result is a coroutine object, and reading
\* result.result_set raises AttributeError.
UnawaitedQueryRaises == dbAsync

\* ensure_user_in_organizations: the input validation before the query
ValidLoginInput(provider_user_id, email, provider) ==
    /\ provider_user_id # <<>>
    /\ email # <<>>
    /\ provider # ""
    /\ Contains(email, 64)
    /\ Contains(email, 46)
    /\ provider \in {"google", "github"}

\* CREATE (user:User {email: $email}): a node is created whether or not one
\* with the e-mail exists
MergeUserCreate(email) ==
    userNodes \cup {[nid |-> FreshNid(userNodes, email), email |-> email]}

\* MERGE (user:User {email: $email})
MergeUser(email) ==
    IF \E u \in userNodes : u.email = email
    THEN userNodes
    ELSE userNodes \cup {[nid |-> FreshNid(userNodes, email), email |-> email]}

\* MERGE (identity:Identity {provider, provider_user_id}) ON CREATE / ON MATCH
\* SET identity.email = $email
MergeIdentity(provider, provider_user_id, email) ==
    IF \E i \in identityNodes :
           i.provider = provider /\ i.provider_user_id = provider_user_id
    THEN {IF i.provider = provider /\ i.provider_user_id = provider_user_id
          THEN [i EXCEPT !.email = email] ELSE i : i \in identityNodes}
    ELSE identityNodes \cup
           {[nid |-> FreshNid(identityNodes, <<provider, provider_user_id>>), provider |-> provider,
             provider_user_id |-> provider_user_id, email |-> email]}

\* MERGE (token:Token {id: $api_token}) ON CREATE SET token.expires_at =
\* timestamp() + 86400000
MergeToken(api_token) ==
    IF \E t \in tokenNodes : t.id = api_token
    THEN tokenNodes
    ELSE tokenNodes \cup
           {[nid |-> FreshNid(tokenNodes, api_token), id |-> api_token,
             created_at |-> now, expires_at |-> now + TokenTTL]}

\* ensure_user_in_organizations(provider_user_id, email, name, provider,
\* api_token): one MERGE query, run atomically by the database.
EnsureUserInOrganizations(provider_user_id, email, provider, api_token, dbFails) ==
    /\ IF ValidLoginInput(provider_user_id, email, provider) /\ ~dbFails
       THEN LET us == MergeUser(email)
                is == MergeIdentity(provider, provider_user_id, email)
                ts == MergeToken(api_token)
                u  == {x \in us : x.email = email}
                i  == {x \in is : x.provider = provider
                                  /\ x.provider_user_id = provider_user_id}
                t  == {x \in ts : x.id = api_token}
            IN  /\ userNodes' = us
                /\ identityNodes' = is
                /\ tokenNodes' = ts
                /\ authenticates' =
                       authenticates \cup {<<a.nid, b.nid>> : a \in i, b \in u}
                /\ hasToken' = hasToken \cup {<<a.nid, b.nid>> : a \in i, b \in t}
       ELSE UNCHANGED orgVars
    /\ UNCHANGED <<dbAsync, now, apiTokenStore, req, accessLog, memVars>>

\* delete_user_token(api_token): MATCH (t:Token {id:$api_token}) DELETE t
DeleteUserToken(api_token, dbFails) ==
    /\ IF dbFails
       THEN UNCHANGED <<tokenNodes, hasToken>>
       ELSE LET gone == {t.nid : t \in {x \in tokenNodes : x.id = api_token}}
            IN  /\ tokenNodes' = {t \in tokenNodes : t.nid \notin gone}
                /\ hasToken' = {e \in hasToken : e[2] \notin gone}
    /\ UNCHANGED <<dbAsync, now, userNodes, identityNodes, authenticates,
                   apiTokenStore, req, accessLog, memVars>>

\* the database clock advances
Tick ==
    /\ now < MaxTicks * TickMs
    /\ now' = now + TickMs
    /\ UNCHANGED <<dbAsync, orgVars, apiTokenStore, req, accessLog, memVars>>

\* api.routes.tokens: a signed-in user generates an API token in the UI; it is
\* stored (hashed) with the account's e-mail.
GenerateApiToken(k, email) ==
    /\ \E u \in userNodes : u.email = email
    /\ \A p \in apiTokenStore : p[1] # k
    /\ apiTokenStore' = apiTokenStore \cup {<<k, email>>}
    /\ UNCHANGED <<dbAsync, now, orgVars, req, accessLog, memVars>>

\* api.routes.tokens.validate_api_token(token): the e-mail of the account the
\* token was generated for, or None
ValidateApiToken(token) ==
    IF \E p \in apiTokenStore : p[1] = token
    THEN Some((CHOOSE p \in apiTokenStore : p[1] = token)[2])
    ELSE None

\* -------------------------------------------------------------- validation
\* faulty variant of TokenValid: a token is rejected at the very instant it
\* expires.  C4 does not hold of it.
TokenValidStrict(t) == now < t.expires_at

\* _get_user_info's query: (t IS NOT NULL AND timestamp() <= t.expires_at)
TokenValid(t) == now <= t.expires_at

\* the rows of MATCH (i:Identity)-[:HAS_TOKEN]->(t:Token {id: $api_token})
\* RETURN i.email, ..., token_valid
TokenRows(api_token) ==
    {<<i.email, TokenValid(t)>> :
        <<i, t>> \in {p \in identityNodes \X tokenNodes :
                         /\ p[2].id = api_token
                         /\ <<p[1].nid, p[2].nid>> \in hasToken}}

\* the user_info dict of a row whose token is valid
RowInfo(row) == IF row[2] THEN Some([id |-> <<>>, email |-> row[1]]) ELSE None

\* _get_user_info(api_token): the values it may return.  result_set[0] is
\* whichever row the database returns first.
GetUserInfo(api_token, dbFails) ==
    IF dbFails \/ AwaitedQueryRaises THEN {None}
    ELSE IF TokenRows(api_token) = {} THEN {None}
    ELSE {RowInfo(row) : row \in TokenRows(api_token)}

\* the (user_info, is_authenticated) pair validate_user builds from db_info
UserResult(db_info) ==
    IF db_info # None THEN [info |-> db_info, ok |-> TRUE]
    ELSE [info |-> None, ok |-> FALSE]

\* the token validate_user reads: the cookie, else the query parameter
PresentedToken(cookie, qparam) == IF cookie # "" THEN cookie ELSE qparam

\* validate_user(request): the values it may return
ValidateUser(cookie, qparam, dbFails) ==
    IF PresentedToken(cookie, qparam) # ""
    THEN {UserResult(db_info) :
             db_info \in GetUserInfo(PresentedToken(cookie, qparam), dbFails)}
    ELSE {[info |-> None, ok |-> FALSE]}

\* the rows of MATCH (user:User {email: $email})<-[:AUTHENTICATES]-(identity)
\* RETURN user, identity
AccountRows(email) ==
    {p \in userNodes \X identityNodes :
        p[1].email = email /\ <<p[2].nid, p[1].nid>> \in authenticates}

\* validate_api_token_user(token): the values it may return.  LIMIT 1 keeps
\* whichever row the database returns first.
ValidateApiTokenUser(token, dbFails) ==
    IF token = "" THEN {[info |-> None, ok |-> FALSE]}
    ELSE IF ValidateApiToken(token) = None THEN {[info |-> None, ok |-> FALSE]}
    ELSE IF dbFails \/ UnawaitedQueryRaises THEN {[info |-> None, ok |-> FALSE]}
    ELSE IF AccountRows(ValidateApiToken(token)[1]) = {}
         THEN {[info |-> None, ok |-> FALSE]}
    ELSE {[info |-> Some([id |-> row[2].provider_user_id,
                          email |-> ValidateApiToken(token)[1]]),
           ok |-> TRUE] : row \in AccountRows(ValidateApiToken(token)[1])}

\* ---------------------------------------------------------- token_required
\* The request keeps what the wrapper still has to read of it: the token after
\* "Bearer " (None without such a header) and the api_token of the cookie or
\* the query string; and the wrapper's locals: is_authenticated of the Bearer
\* validation, and the last call of validate_user.
IdleRequest ==
    [pc |-> "idle", bearer |-> None, token |-> "",
     bearer_ok |-> FALSE, call |-> None,
     email |-> None, user_id |-> <<>>, outcome |-> "none"]

\* auth_header and auth_header.startswith("Bearer "): api_token = auth_header[7:]
BearerToken(header) ==
    IF header # <<>> /\ header[1] = "Bearer" THEN Some(header[2]) ELSE None

\* the token names a Token node that some Identity HAS_TOKEN, and the clock is
\* at most 24 h past the token's creation
TokenIsLive(api_token) ==
    /\ api_token # ""
    /\ \E i \in identityNodes, t \in tokenNodes :
          /\ t.id = api_token
          /\ <<i.nid, t.nid>> \in hasToken
          /\ now <= t.created_at + 86400000

\* the token names such a Token node, and the clock is past its expires_at
TokenIsExpired(api_token) ==
    /\ api_token # ""
    /\ \E i \in identityNodes, t \in tokenNodes :
          /\ t.id = api_token
          /\ <<i.nid, t.nid>> \in hasToken
          /\ now > t.expires_at

\* a request enters the wrapper
ReqBegin(header, cookie, qparam) ==
    /\ req.pc \in {"idle", "done"}
    /\ req' = [IdleRequest EXCEPT
                  !.pc = IF BearerToken(header) # None THEN "bearer" ELSE "session1",
                  !.bearer = BearerToken(header),
                  !.token = PresentedToken(cookie, qparam),
                  !.outcome = "pending"]
    /\ UNCHANGED <<dbAsync, now, orgVars, apiTokenStore, accessLog, memVars>>

\* request.state.user_id is attached and "return await func(request, ...)":
\* a falsy user_id raises 401 instead
Invoke(rq, info, user_id) ==
    IF user_id = <<>>
    THEN [rq EXCEPT !.pc = "done", !.outcome = "401"]
    ELSE [rq EXCEPT !.pc = "done", !.outcome = "handler",
                    !.email = Some(info[1].email), !.user_id = user_id]

\* the request has left the wrapper: its outcome and the wrapper's locals stay
\* on record
Leave(rq) ==
    IF rq.pc = "done" THEN [rq EXCEPT !.bearer = None, !.token = ""] ELSE rq

\* after "await validate_api_token_user(api_token)" returned r
AfterBearer(rq, r) ==
    IF r.ok
    THEN Invoke([rq EXCEPT !.bearer_ok = r.ok], r.info, r.info[1].id)
    ELSE [rq EXCEPT !.bearer_ok = r.ok, !.bearer = None, !.pc = "session1"]

\* after the first "await validate_user(request)" returned r
AfterSession1(rq, r) ==
    IF r.ok
    THEN Invoke(rq, r.info, B64Encode(r.info[1].email))
    ELSE [rq EXCEPT !.pc = "session2"]

\* faulty variant of AfterSession2: a request that failed both attempts goes on
\* to the handler as an anonymous user.  C2 does not hold of it.
AfterSession2Anonymous(rq, r) ==
    IF r.ok
    THEN Invoke(rq, r.info, B64Encode(r.info[1].email))
    ELSE [rq EXCEPT !.pc = "done", !.outcome = "handler", !.email = Some(<<>>),
                    !.user_id = B64Encode(<<97>>)]

\* after the second "await validate_user(request)" returned r
AfterSession2(rq, r) ==
    IF r.ok
    THEN Invoke(rq, r.info, B64Encode(r.info[1].email))
    ELSE [rq EXCEPT !.pc = "done", !.outcome = "401"]

\* the handler behind the decorator opens the caller's memory graph,
\* MemoryTool(request.state.user_id, graph_id)
Access(rq) ==
    IF rq.outcome = "handler"
    THEN {[email |-> rq.email[1], user_id |-> rq.user_id,
           memory_db |-> MemoryDbName(rq.user_id)]}
    ELSE {}

ReqBearer(dbFails) ==
    /\ req.pc = "bearer"
    /\ \E r \in ValidateApiTokenUser(req.bearer[1], dbFails) :
          /\ req' = Leave(AfterBearer(req, r))
          /\ accessLog' = accessLog \cup Access(req')
    /\ UNCHANGED <<dbAsync, now, orgVars, apiTokenStore, memVars>>

\* what the last call of validate_user saw and returned: whether the token
\* presented was live or expired, whether the query raised, the returned pair
CallRecord(dbFails, r) ==
    Some([live |-> TokenIsLive(req.token), expired |-> TokenIsExpired(req.token),
          error |-> dbFails \/ AwaitedQueryRaises, result |-> r])

ReqSession1(dbFails) ==
    /\ req.pc = "session1"
    /\ \E r \in ValidateUser(req.token, "", dbFails) :
          /\ req' = [Leave(AfterSession1(req, r)) EXCEPT
                        !.call = CallRecord(dbFails, r)]
          /\ accessLog' = accessLog \cup Access(req')
    /\ UNCHANGED <<dbAsync, now, orgVars, apiTokenStore, memVars>>

ReqSession2(dbFails) ==
    /\ req.pc = "session2"
    /\ \E r \in ValidateUser(req.token, "", dbFails) :
          /\ req' = [Leave(AfterSession2(req, r)) EXCEPT
                        !.call = CallRecord(dbFails, r)]
          /\ accessLog' = accessLog \cup Access(req')
    /\ UNCHANGED <<dbAsync, now, orgVars, apiTokenStore, memVars>>

\* ------------------------------------------------------------ memory graph
\* Python values whose type matters to the caller
PyBool(b) == [type |-> "bool", val |-> b]
PyList(s) == [type |-> "list", val |-> s]
PyStr(s) == [type |-> "str", val |-> s]
PyDict(d) == [type |-> "dict", val |-> d]
PyNone == [type |-> "NoneType", val |-> <<>>]

\* MemoryTool(user_id, graph_id): the user and the database of the tool
UserId == "u1"
GraphId == "g1"
\* the databases MemoryManager.switch_database is asked for
DatabaseNames == {"g1", "g2"}
\* the summary the knowledge-graph library writes of the user
Summaries == {"prefers CTEs"}
\* natural-language queries
QueryTexts == {"top customers", "top 'vip' customers"}

\* f"User {user_id}", f"Database {database_name}"
NodeName(kind, id) == <<kind, id>>

\* query.replace("'", "\\'").replace('"', '\\"')
Escape(text) ==
    IF text = "top 'vip' customers" THEN "top \\'vip\\' customers" ELSE text

\* the value Cypher reads from the string literal "{escaped_query}": \\' is
\* the quote
CypherString(literal) ==
    IF literal = "top \\'vip\\' customers" THEN "top 'vip' customers" ELSE literal

\* Config.EMBEDDING_MODEL.embed(text)[0]: a point of the embedding space
Embed(text) ==
    CASE text = "top customers" -> 0
      [] text = "top 'vip' customers" -> 1
      [] text = "top \\'vip\\' customers" -> 2
      [] OTHER -> 5

\* similarityFunction:'euclidean': the distance the vector index scores by
Distance(a, b) == IF a >= b THEN a - b ELSE b - a

\* the score of a Query node for an embedding
Score(node, embedding) == Distance(node.embeddings, embedding)

RECURSIVE Arrangements(_, _)
\* the sequences of at most k distinct elements of S
Arrangements(S, k) ==
    IF k = 0 \/ S = {} THEN {<<>>}
    ELSE {<<>>} \cup
         UNION {{<<x>> \o r : r \in Arrangements(S \ {x}, k - 1)} : x \in S}

\* graphiti_client.search_(query, config) with config.limit = limit: the hybrid
\* search ranks the entity nodes by relevance and returns at most limit of them
SearchNodes(limit) == Arrangements(entityNodes, limit)

\* for node in results.nodes: if node.name == name: ...; break
FirstNamed(nodes, name) ==
    IF \E i \in 1..Len(nodes) : nodes[i].name = name
    THEN Some(nodes[CHOOSE i \in 1..Len(nodes) :
                   /\ nodes[i].name = name
                   /\ \A j \in 1..(i - 1) : nodes[j].name # name])
    ELSE None

\* the call that returned last: its name, the value it returned, and of its
\* arguments and of the graph before it what the value is to be judged by
NoCall ==
    [op |-> "none", ret |-> PyNone, query |-> "", limit |-> 0,
     raised |-> FALSE, before |-> 0]

\* _ensure_user_node / _ensure_database_node: search for the node by name
\* (res is what the search returned) and add an episode that creates it unless
\* a result carries exactly that name.  The library's entity extraction
\* decides the new node's summary.  fault names the call that raises.
Ensured(name, fault, res, summary) ==
    LET found == fault # "search" /\ FirstNamed(res, name) # None
        adds == fault = "none" /\ ~found
    IN  [found |-> found, adds |-> adds,
         nodes |-> IF adds
                   THEN entityNodes \cup
                          {[uuid |-> Cardinality(entityNodes) + 1, name |-> name,
                            summary |-> summary]}
                   ELSE entityNodes]

\* the outcomes of ensuring the node called name, over what the search returns
EnsureOutcomes(name, fault, summaries) ==
    {e \in {Ensured(name, fault, res, s) : res \in SearchNodes(1), s \in summaries} :
        e.adds => Cardinality(entityNodes) < MaxEntities}

\* the value _ensure_user_node / _ensure_database_node returns
EnsureReturn(e, id) == IF e.found \/ e.adds THEN PyStr(id) ELSE PyNone

EnsureUserNode(fault) ==
    /\ \E e \in EnsureOutcomes(NodeName("User", UserId), fault, Summaries) :
          /\ entityNodes' = e.nodes
          /\ last' = [NoCall EXCEPT !.op = "_ensure_user_node",
                         !.ret = EnsureReturn(e, UserId)]
    /\ UNCHANGED <<queryNodes, current_database, sm, cr, sc, fmt, authVars>>

EnsureDatabaseNode(fault) ==
    /\ \E e \in EnsureOutcomes(NodeName("Database", GraphId), fault, {""}) :
          /\ entityNodes' = e.nodes
          /\ last' = [NoCall EXCEPT !.op = "_ensure_database_node",
                         !.ret = EnsureReturn(e, GraphId)]
    /\ UNCHANGED <<queryNodes, current_database, sm, cr, sc, fmt, authVars>>

\* ------------------------------------------------------- MemoryTool.create
\* create(user_id, graph_id): the two coroutines handed to asyncio.gather, each
\* at its search, at its add_episode, or done with the value it returned
IdleEnsure == [pc |-> "idle", ret |-> PyNone]
IdleCreate == [pc |-> "idle", user |-> IdleEnsure, database |-> IdleEnsure]

\* self = cls(user_id, graph_id); await asyncio.gather(self._ensure_user_node(
\* user_id), self._ensure_database_node(graph_id, user_id))
CreateStart ==
    /\ cr.pc \in {"idle", "returned"}
    /\ cr' = [pc |-> "gather", user |-> [pc |-> "search", ret |-> PyNone],
              database |-> [pc |-> "search", ret |-> PyNone]]
    /\ UNCHANGED <<entityNodes, queryNodes, current_database, sm, last, sc, fmt, authVars>>

\* the search of _ensure_user_node / _ensure_database_node for the node called
\* name, returning res: the coroutine returns id when a result carries the
\* name, None when the search raises, and goes on to add_episode otherwise
AfterEnsureSearch(name, id, fault, res) ==
    IF fault = "search" THEN [pc |-> "done", ret |-> PyNone]
    ELSE IF FirstNamed(res, name) # None THEN [pc |-> "done", ret |-> PyStr(id)]
    ELSE [pc |-> "episode", ret |-> PyNone]

\* the add_episode of _ensure_user_node / _ensure_database_node: the coroutine
\* returns id, or None when add_episode raises
AfterEnsureEpisode(id, fault) ==
    IF fault = "episode" THEN [pc |-> "done", ret |-> PyNone]
    ELSE [pc |-> "done", ret |-> PyStr(id)]

CreateUserSearch(fault) ==
    /\ cr.pc = "gather" /\ cr.user.pc = "search"
    /\ \E res \in SearchNodes(1) :
          cr' = [cr EXCEPT !.user =
                   AfterEnsureSearch(NodeName("User", UserId), UserId, fault, res)]
    /\ UNCHANGED <<entityNodes, queryNodes, current_database, sm, last, sc, fmt, authVars>>

CreateUserEpisode(fault) ==
    /\ cr.pc = "gather" /\ cr.user.pc = "episode"
    /\ \E summary \in Summaries :
          LET e == Ensured(NodeName("User", UserId), fault, <<>>, summary)
          IN  /\ e.adds => Cardinality(entityNodes) < MaxEntities
              /\ entityNodes' = e.nodes
    /\ cr' = [cr EXCEPT !.user = AfterEnsureEpisode(UserId, fault)]
    /\ UNCHANGED <<queryNodes, current_database, sm, last, sc, fmt, authVars>>

CreateDatabaseSearch(fault) ==
    /\ cr.pc = "gather" /\ cr.database.pc = "search"
    /\ \E res \in SearchNodes(1) :
          cr' = [cr EXCEPT !.database =
                   AfterEnsureSearch(NodeName("Database", GraphId), GraphId,
                                     fault, res)]
    /\ UNCHANGED <<entityNodes, queryNodes, current_database, sm, last, sc, fmt, authVars>>

CreateDatabaseEpisode(fault) ==
    /\ cr.pc = "gather" /\ cr.database.pc = "episode"
    /\ LET e == Ensured(NodeName("Database", GraphId), fault, <<>>, "")
       IN  /\ e.adds => Cardinality(entityNodes) < MaxEntities
           /\ entityNodes' = e.nodes
    /\ cr' = [cr EXCEPT !.database = AfterEnsureEpisode(GraphId, fault)]
    /\ UNCHANGED <<queryNodes, current_database, sm, last, sc, fmt, authVars>>

\* gather resumes create when both coroutines have returned; their values are
\* dropped and "return self" follows
CreateReturn ==
    /\ cr.pc = "gather" /\ cr.user.pc = "done" /\ cr.database.pc = "done"
    /\ cr' = [cr EXCEPT !.pc = "returned"]
    /\ UNCHANGED <<entityNodes, queryNodes, current_database, sm, last, sc, fmt, authVars>>

\* ------------------------------------------- MemoryManager.switch_database
\* the value switch_database returns: False from the except clause, and
\* otherwise the end of the function is reached without a return statement
SwitchReturn(raised) == IF raised THEN PyBool(FALSE) ELSE PyNone

\* MemoryManager.switch_database(database_name).  GraphitiManager's
\* _ensure_database_node(client, database_name, user_id) acts as MemoryTool's,
\* or it raises (fault = "raise").
SwitchDatabase(database_name, fault) ==
    /\ current_database' = Some(database_name)
    /\ \E e \in EnsureOutcomes(NodeName("Database", database_name), fault, {""}) :
          /\ entityNodes' = e.nodes
          /\ last' = [NoCall EXCEPT !.op = "switch_database",
                         !.raised = (fault = "raise"),
                         !.ret = SwitchReturn(fault = "raise")]
    /\ UNCHANGED <<queryNodes, sm, cr, sc, fmt, authVars>>

\* ------------------------------------------------------- save_query_memory
\* the Query node of CREATE (q:Query {...}) and CREATE (db)-[:SUCCESS|FAILED]->(q):
\* db is the node the relationship starts from.  The relationship type, the SQL
\* text and the error are stored but read by no operation modelled here.
NewQuery(db_uuid, query) ==
    [qid |-> Cardinality(queryNodes) + 1, db |-> db_uuid,
     user_query |-> CypherString(Escape(query)),
     embeddings |-> Embed(Escape(query))]

\* whether execute_query(cypher_query, ...) is reached and succeeds
SaveCreates(found, fault) == found /\ fault = "none"

\* faulty variant of SaveReturn: a failed Cypher execution is reported as
\* saved.  C9 does not hold of it.
SaveReturnOptimistic(found, fault) ==
    IF fault = "search" THEN PyBool(FALSE)
    ELSE IF ~found THEN PyBool(FALSE)
    ELSE IF fault = "embed" THEN PyBool(FALSE)
    ELSE PyBool(TRUE)

\* the value save_query_memory returns
SaveReturn(found, fault) ==
    IF fault = "search" THEN PyBool(FALSE)
    ELSE IF ~found THEN PyBool(FALSE)
    ELSE IF fault = "embed" THEN PyBool(FALSE)
    ELSE IF fault = "cypher" THEN PyBool(FALSE)
    ELSE PyBool(TRUE)

\* the database node the search for f"Database {self.graph_id}" yields
DatabaseNodes(fault) ==
    IF fault = "search" THEN {None}
    ELSE {FirstNamed(res, NodeName("Database", GraphId)) : res \in SearchNodes(1)}

\* save_query_memory(query, sql_query, success, error).  Entity nodes are never
\* deleted, so the node found by the search is still there when the Cypher
\* query runs.
SaveQueryMemory(query, fault) ==
    /\ \E d \in DatabaseNodes(fault) :
          /\ SaveCreates(d # None, fault) => Cardinality(queryNodes) < MaxQueries
          /\ queryNodes' =
               IF SaveCreates(d # None, fault)
               THEN queryNodes \cup {NewQuery(d[1].uuid, query)}
               ELSE queryNodes
          /\ last' = [NoCall EXCEPT !.op = "save_query_memory",
                         !.before = Cardinality(queryNodes),
                         !.ret = SaveReturn(d # None, fault)]
    /\ UNCHANGED <<entityNodes, current_database, sm, cr, sc, fmt, authVars>>

\* ------------------------------------------------ retrieve_similar_queries
Smaller(a, b) == IF a <= b THEN a ELSE b

\* CALL db.idx.vector.queryNodes('Query', 'embeddings', 10, vecf32($embedding)):
\* the sets of nearest Query nodes the index may yield
NearestSets(embedding) ==
    {C \in SUBSET queryNodes :
        /\ Cardinality(C) = Smaller(VectorK, Cardinality(queryNodes))
        /\ \A c \in C, n \in queryNodes \ C :
               Score(c, embedding) <= Score(n, embedding)}

\* faulty variant of SimilarRows: the query without its LIMIT clause.  C8 does
\* not hold of it.
SimilarRowsUnlimited(db_uuid, embedding, limit) ==
    UNION {LET M == {n \in C : n.db = db_uuid}
           IN  {s \in Arrangements(M, Cardinality(M)) :
                   /\ Len(s) = Cardinality(M)
                   /\ \A i \in 1..Len(s), j \in 1..Len(s) :
                        i < j => Score(s[i], embedding) <= Score(s[j], embedding)}
           : C \in NearestSets(embedding)}

\* ... MATCH (db:Entity {uuid: $database_node_uuid})-[r]->(node) RETURN node
\* {...} AS query, score ORDER BY score ASC LIMIT {limit}: the node lists the
\* query may yield
SimilarRows(db_uuid, embedding, limit) ==
    UNION {LET M == {n \in C : n.db = db_uuid}
           IN  {s \in Arrangements(M, limit) :
                   /\ Len(s) = Smaller(limit, Cardinality(M))
                   /\ \A i \in 1..Len(s), j \in 1..Len(s) :
                        i < j => Score(s[i], embedding) <= Score(s[j], embedding)
                   /\ \A n \in M : (\A i \in 1..Len(s) : s[i] # n) =>
                        \A i \in 1..Len(s) :
                           Score(s[i], embedding) <= Score(n, embedding)}
           : C \in NearestSets(embedding)}

\* similar_queries = [record["query"] for record in records]
QueryRecords(rows) == [i \in 1..Len(rows) |-> [user_query |-> rows[i].user_query]]

\* the value retrieve_similar_queries returns
RetrieveReturn(found, fault, rows) ==
    IF fault = "search" THEN PyList(<<>>)
    ELSE IF ~found THEN PyBool(FALSE)
    ELSE IF fault = "embed" THEN PyList(<<>>)
    ELSE IF fault = "cypher" THEN PyList(<<>>)
    ELSE PyList(QueryRecords(rows))

\* the values retrieve_similar_queries may return
RetrieveOutcomes(query, limit, fault) ==
    UNION {IF d = None \/ fault # "none"
           THEN {RetrieveReturn(d # None, fault, <<>>)}
           ELSE {RetrieveReturn(TRUE, fault, rows) :
                    rows \in SimilarRows(d[1].uuid, Embed(query), limit)}
           : d \in DatabaseNodes(fault)}

\* retrieve_similar_queries(query, limit)
RetrieveSimilarQueries(query, limit, fault) ==
    /\ \E r \in RetrieveOutcomes(query, limit, fault) :
          last' = [NoCall EXCEPT !.op = "retrieve_similar_queries",
                      !.query = query, !.limit = limit, !.ret = r]
    /\ UNCHANGED <<entityNodes, queryNodes, current_database, sm, cr, sc, fmt, authVars>>

\* --------------------------------------------------------- search_memories
RECURSIVE FactLines(_, _)
\* search_database_facts: for i, result in enumerate(reranked_results, 1): an
\* entry "Fact {i}: ..." for each edge that touches the center node.  touches[i]
\* says whether the i-th edge does; the text is the list of the i kept.
FactLines(touches, i) ==
    IF i > Len(touches) THEN <<>>
    ELSE (IF touches[i] THEN <<i>> ELSE <<>>) \o FactLines(touches, i + 1)

\* graphiti_client.search(query, center_node_uuid, num_results): what each
\* returned edge says of the center node
EdgeResults == UNION {[1..n -> BOOLEAN] : n \in 0..MaxFacts}

IdleTask == [pc |-> "idle", ctx |-> 0, failed |-> FALSE, result |-> PyNone]
IdleSearch ==
    [pc |-> "idle", query |-> "", us |-> IdleTask, df |-> IdleTask,
     sq |-> IdleTask, ret |-> PyNone]

Done(task, failed, result) ==
    [task EXCEPT !.pc = "done", !.ctx = 0, !.failed = failed, !.result = result]

\* search_memories(query): the three coroutines are handed to asyncio.gather;
\* an exception raised in the try block before that returns the fallback dict
SearchMemoriesStart(query, raises) ==
    /\ sm.pc \in {"idle", "returned"}
    /\ sm' = IF raises
             THEN [IdleSearch EXCEPT
                      !.pc = "returned", !.query = query,
                      !.ret = PyDict([user_summary |-> PyStr(""),
                                      database_facts |-> PyStr(<<>>)])]
             ELSE [IdleSearch EXCEPT
                      !.pc = "gather", !.query = query,
                      !.us = [IdleTask EXCEPT !.pc = "search_node"],
                      !.df = [IdleTask EXCEPT !.pc = "search_node"],
                      !.sq = [IdleTask EXCEPT !.pc = "search_node"]]
    /\ UNCHANGED <<entityNodes, queryNodes, current_database, last, cr, sc, fmt, authVars>>

\* search_user_summary(limit): the summary of the first result named
\* "User {user_id}", "" when there is none or the search raises
UserSummaryStep(fault) ==
    /\ sm.pc = "gather" /\ sm.us.pc = "search_node"
    /\ \E res \in SearchNodes(UserLimit) :
          LET n == FirstNamed(res, NodeName("User", UserId))
          IN  sm' = [sm EXCEPT !.us =
                       IF fault = "search" THEN Done(@, TRUE, PyStr(""))
                       ELSE IF n # None THEN Done(@, FALSE, PyStr(n[1].summary))
                       ELSE Done(@, FALSE, PyStr(""))]
    /\ UNCHANGED <<entityNodes, queryNodes, current_database, last, cr, sc, fmt, authVars>>

\* search_database_facts(query, limit): find the database node ...
DatabaseFactsNode(fault) ==
    /\ sm.pc = "gather" /\ sm.df.pc = "search_node"
    /\ \E res \in SearchNodes(DatabaseLimit) :
          LET n == FirstNamed(res, NodeName("Database", GraphId))
          IN  sm' = [sm EXCEPT !.df =
                       IF fault = "search" THEN Done(@, TRUE, PyStr(<<>>))
                       ELSE IF n = None THEN Done(@, FALSE, PyStr(<<>>))
                       ELSE [@ EXCEPT !.pc = "search_facts", !.ctx = n[1].uuid]]
    /\ UNCHANGED <<entityNodes, queryNodes, current_database, last, cr, sc, fmt, authVars>>

\* ... and search the facts around it
DatabaseFactsSearch(fault) ==
    /\ sm.pc = "gather" /\ sm.df.pc = "search_facts"
    /\ \E touches \in EdgeResults :
          sm' = [sm EXCEPT !.df =
                   IF fault = "search" THEN Done(@, TRUE, PyStr(<<>>))
                   ELSE Done(@, FALSE, PyStr(FactLines(touches, 1)))]
    /\ UNCHANGED <<entityNodes, queryNodes, current_database, last, cr, sc, fmt, authVars>>

\* retrieve_similar_queries(query, limit=5): find the database node ...
SimilarQueriesNode(fault) ==
    /\ sm.pc = "gather" /\ sm.sq.pc = "search_node"
    /\ \E d \in DatabaseNodes(fault) :
          sm' = [sm EXCEPT !.sq =
                   IF d = None
                   THEN Done(@, fault = "search", RetrieveReturn(FALSE, fault, <<>>))
                   ELSE [@ EXCEPT !.pc = "query", !.ctx = d[1].uuid]]
    /\ UNCHANGED <<entityNodes, queryNodes, current_database, last, cr, sc, fmt, authVars>>

\* ... embed the query and run the vector query
SimilarQueriesQuery(fault) ==
    /\ sm.pc = "gather" /\ sm.sq.pc = "query"
    /\ \E rows \in SimilarRows(sm.sq.ctx, Embed(sm.query), SimilarLimit) :
          sm' = [sm EXCEPT !.sq =
                   Done(@, fault # "none", RetrieveReturn(TRUE, fault, rows))]
    /\ UNCHANGED <<entityNodes, queryNodes, current_database, last, cr, sc, fmt, authVars>>

\* faulty variant of GatherDone: the caller is resumed as soon as one awaitable
\* has finished (asyncio.wait with FIRST_COMPLETED).  C6 does not hold of it.
GatherAny(s) == s.us.pc = "done" \/ s.df.pc = "done" \/ s.sq.pc = "done"

\* asyncio.gather(..., return_exceptions=True) resumes its caller when every
\* awaitable has finished
GatherDone(s) == s.us.pc = "done" /\ s.df.pc = "done" /\ s.sq.pc = "done"

\* the dict search_memories builds from the gathered results
SearchMemoriesReturn ==
    /\ sm.pc = "gather"
    /\ GatherDone(sm)
    /\ sm' = [sm EXCEPT !.pc = "returned",
                 !.ret = PyDict([user_summary |-> sm.us.result,
                                 database_facts |-> sm.df.result,
                                 similar_queries |-> sm.sq.result])]
    /\ UNCHANGED <<entityNodes, queryNodes, current_database, last, cr, sc, fmt, authVars>>

\* -------------------------------------------------- summarize_conversation
\* a Python dict is a function of its keys; d.get(key, default)
EmptyDict == [k \in {} |-> ""]
Get(d, key, default) == IF key \in DOMAIN d THEN d[key] ELSE default

\* question-answer exchanges, and what callers pass as the conversation: one
\* exchange (a dict), or a list of at most MaxExchanges items
Exchanges ==
    { EmptyDict,
      [question |-> "top customers"],
      [question |-> "top customers", generated_sql |-> "SELECT 1",
       sql |-> "SELECT 1", answer |-> "42", success |-> TRUE],
      [question |-> "late orders", generated_sql |-> "SELEC",
       error |-> "syntax error", success |-> FALSE] }

ListItems == {PyDict(e) : e \in Exchanges} \cup {PyStr("hello")}

Conversations ==
    {PyDict(e) : e \in Exchanges} \cup
    {PyList(s) : s \in UNION {[1..n -> ListItems] : n \in 0..MaxExchanges}}

\* the JSON texts the model may reply with, by what json.loads makes of them:
\* an object, an array, a string, or no JSON at all
JsonObjects ==
    { EmptyDict,
      [database_summary |-> PyStr("uses CTEs"), personal_memory |-> PyStr("Ann")],
      [database_summary |-> PyStr("uses CTEs")],
      [database_summary |-> PyNone, personal_memory |-> PyStr("")],
      [notes |-> PyStr("n/a")] }

JsonTexts ==
    {[kind |-> "object", val |-> o] : o \in JsonObjects} \cup
    {[kind |-> k, val |-> EmptyDict] : k \in {"array", "string", "invalid"}}

\* what completion(...) does: it raises, or response.choices[0].message.content
\* is None, or it is a text: a JSON text bare ("none"), inside a code fence
\* tagged json ("json"), or inside an untagged code fence ("plain")
LlmOutcomes ==
    {[outcome |-> o, fence |-> "none", body |-> [kind |-> "invalid", val |-> EmptyDict]] :
        o \in {"raise", "none"}} \cup
    {[outcome |-> "text", fence |-> f, body |-> b] :
        f \in {"none", "json", "plain"}, b \in JsonTexts}

\* MemoryTool.summarize_conversation formats the conversation before its try
\* block: conversation.get(...) raises AttributeError unless it is a dict
ToolConvText(conversation) ==
    IF conversation.type # "dict" THEN None
    ELSE LET c == conversation.val
         IN  Some(<<<<"User", Get(c, "question", "")>>>>
                  \o (IF Get(c, "generated_sql", "") # ""
                      THEN <<<<"SQL", c.generated_sql>>>> ELSE <<>>)
                  \o (IF Get(c, "error", "") # ""
                      THEN <<<<"Error", c.error>>>> ELSE <<>>)
                  \o (IF Get(c, "answer", "") # ""
                      THEN <<<<"Assistant", c.answer>>>> ELSE <<>>)
                  \o <<<<"Execution Status",
                         IF Get(c, "success", TRUE) THEN "Success" ELSE "Failed">>>>)

\* the lines MemoryManager.summarize_conversation writes for one exchange
ExchangeText(e) ==
    <<<<"User", Get(e, "question", "")>>>>
    \o (IF Get(e, "sql", "") # "" THEN <<<<"SQL", e.sql>>>> ELSE <<>>)
    \o (IF Get(e, "answer", "") # "" THEN <<<<"Assistant", e.answer>>>> ELSE <<>>)

\* what "for exchange in conversation" yields: the items of a list, the keys
\* of a dict
Iterated(conversation) ==
    IF conversation.type = "list" THEN conversation.val
    ELSE IF conversation.val = EmptyDict THEN <<>>
    ELSE <<PyStr("question")>>

RECURSIVE ManagerLines(_, _)
ManagerLines(items, i) ==
    IF i > Len(items) THEN <<>>
    ELSE ExchangeText(items[i].val) \o ManagerLines(items, i + 1)

\* MemoryManager.summarize_conversation formats the conversation before its
\* try block: exchange.get(...) raises AttributeError unless each item is a dict
ManagerConvText(conversation) ==
    IF \E i \in 1..Len(Iterated(conversation)) :
          Iterated(conversation)[i].type # "dict"
    THEN None
    ELSE Some(ManagerLines(Iterated(conversation), 1))

\* the fence is stripped only where content starts with the json tag; then
\* json.loads(content): the text parsed, or "invalid" where json.loads raises
\* (a text still inside its untagged fence is no JSON)
JsonLoads(llm) ==
    IF llm.fence = "plain" THEN [kind |-> "invalid", val |-> EmptyDict]
    ELSE llm.body

EmptySummary ==
    PyDict([database_summary |-> PyStr(""), personal_memory |-> PyStr("")])

\* the try block of both functions: the dict built from the parsed reply, and
\* the dict of the except clause when completion raises, content is None,
\* json.loads raises, or the parsed value has no .get
LlmSummary(llm) ==
    IF llm.outcome # "text" THEN EmptySummary
    ELSE IF JsonLoads(llm).kind # "object" THEN EmptySummary
    ELSE PyDict([database_summary |->
                    Get(JsonLoads(llm).val, "database_summary", PyStr("")),
                 personal_memory |->
                    Get(JsonLoads(llm).val, "personal_memory", PyStr(""))])

IdleSummary ==
    [op |-> "none", conversation |-> PyNone,
     llm |-> [outcome |-> "none", fence |-> "none",
              body |-> [kind |-> "invalid", val |-> EmptyDict]],
     raised |-> FALSE, ret |-> PyNone]

\* the call as it ended: raised by the formatting, or returned from the try
Summarized(op, conversation, conv_text, llm) ==
    [op |-> op, conversation |-> conversation, llm |-> llm,
     raised |-> conv_text = None,
     ret |-> IF conv_text = None THEN PyNone ELSE LlmSummary(llm)]

\* MemoryTool.summarize_conversation(conversation)
ToolSummarizeConversation(conversation, llm) ==
    /\ sc' = Summarized("MemoryTool.summarize_conversation", conversation,
                        ToolConvText(conversation), llm)
    /\ UNCHANGED <<entityNodes, queryNodes, current_database, sm, last, cr, fmt, authVars>>

\* MemoryManager.summarize_conversation(conversation)
ManagerSummarizeConversation(conversation, llm) ==
    /\ sc' = Summarized("MemoryManager.summarize_conversation", conversation,
                        ManagerConvText(conversation), llm)
    /\ UNCHANGED <<entityNodes, queryNodes, current_database, sm, last, cr, fmt, authVars>>

\* ------------------------------------------------------------ format_schema
\* Texts are sequences of pieces: the literal parts of an f-string and the
\* values put between them, empty values left out.
Text(pieces) == SelectSeq(pieces, LAMBDA p : p # "")

\* Python's str(value), as an f-string applies it
Str(v) ==
    IF v.type = "NoneType" THEN "None"
    ELSE IF v.type = "bool" THEN (IF v.val THEN "True" ELSE "False")
    ELSE v.val

\* the column dicts of a table: keyType PRI, FK, another one, None, missing
ColumnPri ==
    [columnName |-> PyStr("id"), dataType |-> PyStr("int"),
     description |-> PyStr("User ID"), keyType |-> PyStr("PRI"),
     nullable |-> PyBool(FALSE)]
ColumnFk ==
    [columnName |-> PyStr("dept_id"), dataType |-> PyStr("int"),
     description |-> PyStr("Department ID"), keyType |-> PyStr("FK"),
     nullable |-> PyBool(TRUE)]
ColumnUni ==
    [columnName |-> PyStr("mail"), dataType |-> PyStr("varchar"),
     description |-> PyStr(""), keyType |-> PyStr("UNI")]
ColumnNone ==
    [columnName |-> PyStr("name"), dataType |-> PyStr("varchar"),
     description |-> PyStr("User name"), keyType |-> PyNone,
     nullable |-> PyBool(FALSE)]
ColumnBare == [columnName |-> PyStr("note")]

ColumnLists ==
    { <<>>, <<ColumnPri, ColumnNone>>, <<ColumnFk, ColumnUni>>, <<ColumnBare>> }

\* table_info[2]: a dict of foreign keys (its items in order), or no dict
FkDept ==
    <<"fk_dept", [column |-> "dept_id", referenced_table |-> "departments",
                  referenced_column |-> "id"]>>
FkBare == <<"fk_x", [column |-> "x"]>>

ForeignKeys ==
    { PyNone, PyList(<<>>), PyDict(<<>>), PyDict(<<FkDept>>),
      PyDict(<<FkDept, FkBare>>) }

\* table_info = [table_name, table_description, foreign_keys, columns]
Tables ==
    { <<n[1], n[2], f, c>> :
        n \in {<<"users", "User information table">>, <<"t", "">>},
        f \in ForeignKeys, c \in ColumnLists }

SchemaData == UNION {[1..n -> Tables] : n \in 0..MaxTables}

\* key_info = ", PRIMARY KEY" if col_key == "PRI" else ", FOREIGN KEY" if
\* col_key == "FK" else ""
KeyInfo(col_key) ==
    IF col_key = PyStr("PRI") THEN ", PRIMARY KEY"
    ELSE IF col_key = PyStr("FK") THEN ", FOREIGN KEY" ELSE ""

\* column_str + "\n" of one column
ColumnStr(column) ==
    LET col_name == Get(column, "columnName", PyStr(""))
        col_type == Get(column, "dataType", PyNone)
        col_description == Get(column, "description", PyStr(""))
        col_key == Get(column, "keyType", PyNone)
        nullable == Get(column, "nullable", PyBool(FALSE))
    IN  <<"  - ", Str(col_name), " (", Str(col_type), ",", KeyInfo(col_key),
          ",", Str(col_key), ",", Str(nullable), "): ", Str(col_description),
          "\n">>

RECURSIVE ColumnsStr(_, _)
\* for column in columns: table_str += column_str + "\n"
ColumnsStr(columns, i) ==
    IF i > Len(columns) THEN <<>>
    ELSE ColumnStr(columns[i]) \o ColumnsStr(columns, i + 1)

\* the line of one foreign key
FkStr(fk_name, fk_info) ==
    <<"  - ", fk_name, ": ", Get(fk_info, "column", ""), " references ",
      Get(fk_info, "referenced_table", ""), ".",
      Get(fk_info, "referenced_column", ""), "\n">>

RECURSIVE FksStr(_, _)
\* for fk_name, fk_info in foreign_keys.items()
FksStr(items, i) ==
    IF i > Len(items) THEN <<>>
    ELSE FkStr(items[i][1], items[i][2]) \o FksStr(items, i + 1)

\* table_str of one table_info; both functions build it the same way
TableStr(table_info) ==
    LET table_name == table_info[1]
        table_description == table_info[2]
        foreign_keys == table_info[3]
        columns == table_info[4]
    IN  <<"Table: ", table_name, " - ", table_description, "\n">>
        \o ColumnsStr(columns, 1)
        \o (IF foreign_keys.type = "dict" /\ foreign_keys.val # <<>>
            THEN <<"  Foreign Keys:\n">> \o FksStr(foreign_keys.val, 1)
            ELSE <<>>)

RECURSIVE Join(_, _, _)
\* "\n".join(formatted_schema)
Join(sep, list, i) ==
    IF i > Len(list) THEN <<>>
    ELSE (IF i > 1 THEN <<sep>> ELSE <<>>) \o list[i] \o Join(sep, list, i + 1)

\* test_refactor.original_format_schema(schema_data)
original_format_schema(schema_data) ==
    Text(Join("\n", [i \in 1..Len(schema_data) |-> TableStr(schema_data[i])], 1))

\* FollowUpAgent._format_schema(schema_data)
FormatSchema(schema_data) ==
    IF schema_data = <<>> THEN <<"No relevant tables found">>
    ELSE Text(Join("\n", [i \in 1..Len(schema_data) |-> TableStr(schema_data[i])], 1))

IdleFormat ==
    [called |-> FALSE, schema_data |-> <<>>, original_output |-> <<>>,
     new_output |-> <<>>]

\* the test script, run once: both functions applied to one schema_data
TestRefactor(schema_data) ==
    /\ ~fmt.called
    /\ fmt' = [called |-> TRUE, schema_data |-> schema_data,
               original_output |-> original_format_schema(schema_data),
               new_output |-> FormatSchema(schema_data)]
    /\ UNCHANGED <<entityNodes, queryNodes, current_database, sm, last, cr, sc, authVars>>

\* ------------------------------------------------------------ specification
AuthInit ==
    /\ dbAsync \in BOOLEAN
    /\ now = 0
    /\ userNodes = {}
    /\ identityNodes = {}
    /\ tokenNodes = {}
    /\ authenticates = {}
    /\ hasToken = {}
    /\ apiTokenStore = {}
    /\ req = IdleRequest
    /\ accessLog = {}

AuthNext ==
    \/ \E i \in LoginInputs, t \in SessionTokens, f \in BOOLEAN :
          EnsureUserInOrganizations(i[1], i[2], i[3], t, f)
    \/ \E t \in SessionTokens, f \in BOOLEAN : DeleteUserToken(t, f)
    \/ Tick
    \/ \E p \in ApiTokenOwners : GenerateApiToken(p[1], p[2])
    \/ \E h \in Headers, c \in Presented, q \in Presented : ReqBegin(h, c, q)
    \/ \E f \in BOOLEAN : ReqBearer(f)
    \/ \E f \in BOOLEAN : ReqSession1(f)
    \/ \E f \in BOOLEAN : ReqSession2(f)

MemInit ==
    /\ entityNodes = {}
    /\ queryNodes = {}
    /\ current_database = None
    /\ sm = IdleSearch
    /\ last = NoCall
    /\ cr = IdleCreate
    /\ sc = IdleSummary
    /\ fmt = IdleFormat

MemNext ==
    \/ \E f \in {"none", "search", "episode"} : EnsureUserNode(f)
    \/ \E f \in {"none", "search", "episode"} : EnsureDatabaseNode(f)
    \/ \E d \in DatabaseNames, f \in {"none", "search", "episode", "raise"} :
          SwitchDatabase(d, f)
    \/ \E q \in QueryTexts, f \in {"none", "search", "embed", "cypher"} :
          SaveQueryMemory(q, f)
    \/ \E q \in QueryTexts, n \in 0..MaxLimit,
          f \in {"none", "search", "embed", "cypher"} :
          RetrieveSimilarQueries(q, n, f)

\* memory graphs that _ensure_user_node, _ensure_database_node and
\* save_query_memory build: the empty graph; the user node alone; the user, the
\* database and two saved queries; and a database node created twice (its
\* second search missed the first node), each copy with a saved query
SeedQuery(qid, db_uuid, query) ==
    [qid |-> qid, db |-> db_uuid, user_query |-> CypherString(Escape(query)),
     embeddings |-> Embed(Escape(query))]

SeedUser(uuid) ==
    [uuid |-> uuid, name |-> NodeName("User", UserId), summary |-> "prefers CTEs"]

SeedDatabase(uuid) ==
    [uuid |-> uuid, name |-> NodeName("Database", GraphId), summary |-> ""]

SeedGraphs ==
    { [entities |-> {}, queries |-> {}],
      [entities |-> {SeedUser(1)}, queries |-> {}],
      [entities |-> {SeedUser(1), SeedDatabase(2)},
       queries |-> {SeedQuery(1, 2, "top 'vip' customers"),
                    SeedQuery(2, 2, "top customers")}],
      [entities |-> {SeedDatabase(1), SeedDatabase(2)},
       queries |-> {SeedQuery(1, 1, "top customers"),
                    SeedQuery(2, 2, "top 'vip' customers")}] }

SearchInit ==
    /\ \E G \in SeedGraphs : entityNodes = G.entities /\ queryNodes = G.queries
    /\ current_database = None
    /\ sm = IdleSearch
    /\ last = NoCall
    /\ cr = IdleCreate
    /\ sc = IdleSummary
    /\ fmt = IdleFormat

SearchNext ==
    \/ \E q \in QueryTexts, r \in BOOLEAN : SearchMemoriesStart(q, r)
    \/ \E f \in {"none", "search"} : UserSummaryStep(f)
    \/ \E f \in {"none", "search"} : DatabaseFactsNode(f)
    \/ \E f \in {"none", "search"} : DatabaseFactsSearch(f)
    \/ \E f \in {"none", "search"} : SimilarQueriesNode(f)
    \/ \E f \in {"none", "embed", "cypher"} : SimilarQueriesQuery(f)
    \/ SearchMemoriesReturn

CreateNext ==
    \/ CreateStart
    \/ \E f \in {"none", "search"} : CreateUserSearch(f)
    \/ \E f \in {"none", "episode"} : CreateUserEpisode(f)
    \/ \E f \in {"none", "search"} : CreateDatabaseSearch(f)
    \/ \E f \in {"none", "episode"} : CreateDatabaseEpisode(f)
    \/ CreateReturn

SummaryNext ==
    \/ \E c \in Conversations, l \in LlmOutcomes : ToolSummarizeConversation(c, l)
    \/ \E c \in Conversations, l \in LlmOutcomes :
          ManagerSummarizeConversation(c, l)

FormatNext == \E d \in SchemaData : TestRefactor(d)

\* requests against the Organizations graph; the memory graph is left alone
AuthStart == AuthInit /\ MemInit

AuthSpec == AuthStart /\ [][AuthNext]_vars

\* the operations of one user's memory tool and manager
MemStart == AuthInit /\ dbAsync = TRUE /\ MemInit

MemSpec == MemStart /\ [][MemNext]_vars

\* MemoryTool.create, called again and again on one memory graph
CreateSpec == MemStart /\ [][CreateNext]_vars

\* the two schema formatters side by side
FormatSpec == MemStart /\ [][FormatNext]_vars

\* summarize_conversation of the tool and of the manager
SummarySpec == MemStart /\ [][SummaryNext]_vars

\* search_memories on a memory graph the operations above have built
SearchStart == AuthInit /\ dbAsync = TRUE /\ SearchInit

SearchSpec == SearchStart /\ [][SearchNext]_vars

SessionAccepted == req.call # None /\ req.call[1].result.ok

\* C2: the handler is invoked only when validate_api_token_user accepted the
\* Bearer token or validate_user accepted the api_token; every other request
\* that has left the wrapper ended with 401.
C2_RouteProtected ==
    /\ req.outcome = "handler" => req.bearer_ok \/ SessionAccepted
    /\ (req.pc = "done" /\ ~req.bearer_ok /\ ~SessionAccepted) =>
           req.outcome = "401"

\* a request has reached the handler on the session path
C2_SessionReachesHandler ==
    req.pc = "done" /\ req.outcome = "handler" /\ ~req.bearer_ok /\ SessionAccepted

\* C3: a request whose token has expired (and whose query did not fail) is
\* refreshed and reaches the handler instead of being rejected.
C3_ExpiredTokenRefreshed ==
    (req.pc = "done" /\ req.call # None /\ req.call[1].expired
        /\ ~req.call[1].error) => req.outcome = "handler"

C5_ThreeKeys ==
    sm.pc = "returned" =>
        /\ sm.ret.type = "dict"
        /\ DOMAIN sm.ret.val = {"user_summary", "database_facts", "similar_queries"}

\* search_memories returned what asyncio.gather handed it
ReturnedFromGather == sm.pc = "returned" /\ sm.us.pc # "idle"

\* C6: the three sub-searches are in flight together; search_memories returns
\* only when all three have finished; and each one's result is in the returned
\* dict whether or not another one failed.
C6_GatherWaitsForAll ==
    /\ sm.pc = "gather" =>
           sm.us.pc # "idle" /\ sm.df.pc # "idle" /\ sm.sq.pc # "idle"
    /\ ReturnedFromGather =>
           /\ sm.us.pc = "done" /\ sm.df.pc = "done" /\ sm.sq.pc = "done"
           /\ sm.ret.val.user_summary = sm.us.result
           /\ sm.ret.val.database_facts = sm.df.result
           /\ sm.ret.val.similar_queries = sm.sq.result

\* search_memories returned after the user-summary search failed, with the
\* facts and the similar queries the other two found
C6_OneFailedOthersKept ==
    /\ ReturnedFromGather
    /\ sm.us.failed /\ ~sm.df.failed /\ ~sm.sq.failed
    /\ sm.ret.val.database_facts.val # <<>>
    /\ sm.ret.val.similar_queries.type = "list"
    /\ sm.ret.val.similar_queries.val # <<>>

\* C7: retrieve_similar_queries returns a list in every outcome.
C7_AlwaysList ==
    last.op = "retrieve_similar_queries" => last.ret.type = "list"

\* the score of a returned record for the query it was retrieved for
RecordScore(record, query) ==
    Distance(Embed(Escape(record.user_query)), Embed(query))

\* C8: the list retrieve_similar_queries(query, limit) returns has at most
\* limit records, in ascending order of score.
C8_LimitedAndSorted ==
    (last.op = "retrieve_similar_queries" /\ last.ret.type = "list") =>
        /\ Len(last.ret.val) <= last.limit
        /\ \A i \in 1..Len(last.ret.val), j \in 1..Len(last.ret.val) :
               i < j => RecordScore(last.ret.val[i], last.query)
                          <= RecordScore(last.ret.val[j], last.query)

\* retrieve_similar_queries returned two records of different scores, as many
\* as its limit, the closer one being the query saved later
C8_TwoRecordsReturned ==
    /\ last.op = "retrieve_similar_queries" /\ last.ret.type = "list"
    /\ Len(last.ret.val) = 2 /\ last.limit = 2
    /\ RecordScore(last.ret.val[1], last.query)
         < RecordScore(last.ret.val[2], last.query)
    /\ \E q \in queryNodes :
          q.qid = 2 /\ q.user_query = last.ret.val[1].user_query

\* the call of save_query_memory that returned last added one Query node,
\* linked from a node named for the tool's database
QueryCreated ==
    /\ Cardinality(queryNodes) = last.before + 1
    /\ \E q \in queryNodes :
          /\ q.qid = last.before + 1
          /\ \E e \in entityNodes :
                e.uuid = q.db /\ e.name = NodeName("Database", GraphId)

\* C9: save_query_memory returns True exactly when a Query node was created
\* and linked to the database's node, and False, leaving the Query nodes as
\* they were, otherwise.
C9_SavedIffCreated ==
    last.op = "save_query_memory" =>
        /\ last.ret.type = "bool"
        /\ last.ret.val <=> QueryCreated
        /\ ~last.ret.val => Cardinality(queryNodes) = last.before

\* save_query_memory returned True with the new Query node in the graph
C9_SavedTrue ==
    last.op = "save_query_memory" /\ last.ret = PyBool(TRUE) /\ QueryCreated

\* C10: switch_database returns True when the switch succeeded (the current
\* database set, the database node ensured without an exception).
C10_SwitchReturnsTrue ==
    (last.op = "switch_database" /\ ~last.raised) => last.ret = PyBool(TRUE)

\* C11: when MemoryTool.create has returned a tool, both nodes have been
\* ensured: _ensure_user_node and _ensure_database_node each found its node or
\* added its creation episode, and the memory graph holds a node named
\* 'User {user_id}' and one named 'Database {graph_id}'.
C11_CreateEnsuresNodes ==
    cr.pc = "returned" =>
        /\ cr.user.ret = PyStr(UserId)
        /\ cr.database.ret = PyStr(GraphId)
        /\ \E n \in entityNodes : n.name = NodeName("User", UserId)
        /\ \E n \in entityNodes : n.name = NodeName("Database", GraphId)

\* the LLM call failed, or its reply is not valid JSON
LlmFailed(llm) ==
    llm.outcome # "text" \/ llm.fence = "plain" \/ llm.body.kind = "invalid"

\* C12: summarize_conversation never raises and returns a dict with exactly
\* the keys database_summary and personal_memory, both values being empty
\* strings when the LLM call failed or its reply was not valid JSON.
C12_SummaryDict ==
    sc.op # "none" =>
        /\ ~sc.raised
        /\ sc.ret.type = "dict"
        /\ DOMAIN sc.ret.val = {"database_summary", "personal_memory"}
        /\ LlmFailed(sc.llm) => sc.ret = EmptySummary

\* C13: after any sequence of ensure_user_in_organizations calls the
\* Organizations graph holds at most one User node per email, at most one
\* Identity node per (provider, provider_user_id) and at most one Token node
\* per token id.
C13_OneNodePerKey ==
    /\ \A a, b \in userNodes : a.email = b.email => a = b
    /\ \A a, b \in identityNodes :
          (a.provider = b.provider /\ a.provider_user_id = b.provider_user_id)
              => a = b
    /\ \A a, b \in tokenNodes : a.id = b.id => a = b

\* later logins matched the nodes of earlier ones: a user reached by two
\* identities, an identity that authenticated two users, and a token held by
\* two identities
C13_LoginsMatched ==
    /\ \E u \in userNodes :
          Cardinality({i \in identityNodes : <<i.nid, u.nid>> \in authenticates}) >= 2
    /\ \E i \in identityNodes :
          Cardinality({u \in userNodes : <<i.nid, u.nid>> \in authenticates}) >= 2
    /\ \E t \in tokenNodes :
          Cardinality({i \in identityNodes : <<i.nid, t.nid>> \in hasToken}) >= 2

\* C14: for every schema_data list the refactored _format_schema returns the
\* same text as the original format_schema.
C14_FormatIdentical ==
    fmt.called => fmt.new_output = fmt.original_output

\* on every list with at least one table the two texts are the same
FormatIdenticalOnTables ==
    (fmt.called /\ fmt.schema_data # <<>>) => fmt.new_output = fmt.original_output

====
